---------------------------- MODULE Spec2Model ----------------------------
(***************************************************************************)
(* A model of src/core.py (wdginvoice): the greedy text wrapper            *)
(* _wrap_text and the invoice generator generate_invoice (date parsing,    *)
(* item ordering, pagination, page drawing, overlay merge, output files).  *)
(*                                                                         *)
(* Lengths are integers in units of 1/127 point.  reportlab's mm is        *)
(* 72/25.4 = 360/127 point, so 1 mm = 360 units and 1 point = 127 units,   *)
(* and every layout value of the source is an exact integer here.          *)
(* Strings are sequences of one-character strings.                         *)
(***************************************************************************)
EXTENDS Integers, Sequences, FiniteSets, TLC

VARIABLES
    \* ---- inputs of generate_invoice and its environment
    data,          \* the invoice record: date, items (in insertion order), vat
    output_path,   \* [dir, base]: os.path.dirname / basename of output_path
    template,      \* the pages of the blank PDF on disk
    fs,            \* the filesystem: [dirs, files]
    fs0,           \* the filesystem when generate_invoice was called
    \* ---- locals of generate_invoice
    pc,            \* the section of generate_invoice about to run
    reader_blank,  \* reader_blank.pages
    dt,            \* the parsed date
    items_sorted,
    pages, cur_page, cur_y, plan_i,
    subtotal, page_idx, row, y,
    canvas,        \* [cur: ops drawn on the open page, shown: flushed pages]
    added,         \* keys whose amount has been added to subtotal, in order
    reader_overlay,
    writer, merge_i,
    \* ---- _wrap_text called on its own
    w_text, w_max, w_pc, w_result

invoice_vars == <<data, output_path, template, fs, fs0, pc, reader_blank, dt,
                  items_sorted, pages, cur_page, cur_y, plan_i, subtotal,
                  page_idx, row, y, canvas, added, reader_overlay, writer,
                  merge_i>>
wrap_vars == <<w_text, w_max, w_pc, w_result>>
vars == <<invoice_vars, wrap_vars>>

-----------------------------------------------------------------------------
(* Units and the layout table (src/core.py lines 14-88).                   *)

UnitsPerPoint == 127
mm == 360
A4_HEIGHT_MM == 297
ph == A4_HEIGHT_MM * mm

Y_FIRST_ITEM == ph - 112 * mm
SEP_ITEM == 25 * mm
SEP_LAST_VAT == 15 * mm
SEP_VAT_TOTAL == 6 * mm
SEP_TOTAL_BANK == 18 * mm
FS_MAIN == 9 * UnitsPerPoint
DETAIL_LEADING == 11 * UnitsPerPoint
ITEM_LEADING == 25 * mm
WRAP_CHARS == 70
PAGE_BOTTOM_Y_CUTOFF == 80 * mm
ROW_GAP == 0
KEY_SENTINEL == 1000000000

BANK_LINES == << <<"A">>, <<"S">>, <<"I">>, <<"B">> >>

-----------------------------------------------------------------------------
(* Strings.                                                                *)

Whitespace == {" "}

RECURSIVE lstrip(_)
lstrip(s) ==
    IF s = <<>> THEN s
    ELSE IF Head(s) \in Whitespace THEN lstrip(Tail(s)) ELSE s

RECURSIVE rstrip(_)
rstrip(s) ==
    IF s = <<>> THEN s
    ELSE IF s[Len(s)] \in Whitespace THEN rstrip(SubSeq(s, 1, Len(s) - 1))
    ELSE s

\* str.strip()
strip(s) == rstrip(lstrip(s))

\* the length of the longest whitespace-free prefix of s
RECURSIVE WordEnd(_)
WordEnd(s) ==
    IF s = <<>> \/ Head(s) \in Whitespace THEN 0 ELSE 1 + WordEnd(Tail(s))

\* str.split(): the maximal whitespace-free runs, in order
RECURSIVE split(_)
split(s) ==
    LET t == lstrip(s)
        n == WordEnd(t)
    IN  IF t = <<>> THEN <<>>
        ELSE <<SubSeq(t, 1, n)>> \o split(SubSeq(t, n + 1, Len(t)))

\* " ".join(ws)
RECURSIVE join(_)
join(ws) ==
    IF ws = <<>> THEN <<>>
    ELSE IF Len(ws) = 1 THEN ws[1]
    ELSE ws[1] \o <<" ">> \o join(Tail(ws))

\* the for loop of _wrap_text (lines 165-176)
RECURSIVE WrapLoop(_, _, _, _, _)
WrapLoop(words, max_chars, lines, cur, cur_len) ==
    IF words = <<>>
    THEN IF cur # <<>> THEN Append(lines, join(cur)) ELSE lines
    ELSE LET w == Head(words)
             add == Len(w) + (IF cur # <<>> THEN 1 ELSE 0)
         IN  IF cur_len + add <= max_chars
             THEN WrapLoop(Tail(words), max_chars, lines,
                           Append(cur, w), cur_len + add)
             ELSE WrapLoop(Tail(words), max_chars,
                           Append(lines, join(cur)), <<w>>, Len(w))

\* text is [none |-> TRUE] for None, else [none |-> FALSE, s |-> the string]
_wrap_text(text, max_chars) ==
    IF text.none THEN <<>>
    ELSE LET s == strip(text.s)
         IN  IF s = <<>> \/ max_chars <= 0 THEN <<s>>
             ELSE WrapLoop(split(s), max_chars, <<>>, <<>>, 0)

Str(s) == [none |-> FALSE, s |-> s]
NoneText == [none |-> TRUE]


-----------------------------------------------------------------------------
(* Numbers written in decimal.                                             *)

Digits == {"0", "1", "2", "3", "4", "5", "6", "7", "8", "9"}

DigitVal(c) ==
    CASE c = "0" -> 0 [] c = "1" -> 1 [] c = "2" -> 2 [] c = "3" -> 3
      [] c = "4" -> 4 [] c = "5" -> 5 [] c = "6" -> 6 [] c = "7" -> 7
      [] c = "8" -> 8 [] c = "9" -> 9

AllDigits(s) == s # <<>> /\ \A i \in 1..Len(s) : s[i] \in Digits

RECURSIVE IntOf(_)
IntOf(s) ==
    IF s = <<>> THEN 0
    ELSE 10 * IntOf(SubSeq(s, 1, Len(s) - 1)) + DigitVal(s[Len(s)])

\* whether int(k) succeeds: an optional sign and decimal digits
IsNumeric(k) ==
    \/ AllDigits(k)
    \/ Len(k) >= 2 /\ k[1] \in {"-", "+"} /\ AllDigits(Tail(k))

\* int(k) for a k that int accepts
int(k) ==
    IF k[1] = "-" THEN 0 - IntOf(Tail(k))
    ELSE IF k[1] = "+" THEN IntOf(Tail(k))
    ELSE IntOf(k)

\* generate_invoice._key_int (lines 227-231)
_key_int(k) == IF IsNumeric(k) THEN int(k) ELSE KEY_SENTINEL

\* the position sorted() gives x in an already sorted list: after every
\* element whose key is not greater (sorted is stable)
RECURSIVE InsertByKey(_, _)
InsertByKey(sorted, x) ==
    IF sorted = <<>> THEN <<x>>
    ELSE IF _key_int(Head(sorted).key) <= _key_int(x.key)
         THEN <<Head(sorted)>> \o InsertByKey(Tail(sorted), x)
         ELSE <<x>> \o sorted

\* sorted(data["items"].keys(), key=_key_int) paired with the items (line 233)
RECURSIVE SortItems(_)
SortItems(items) ==
    IF items = <<>> THEN <<>>
    ELSE InsertByKey(SortItems(SubSeq(items, 1, Len(items) - 1)),
                     items[Len(items)])

-----------------------------------------------------------------------------
(* datetime.strptime for the four formats of line 215.                     *)

\* the fields of s between occurrences of sep
RECURSIVE SplitOn(_, _)
SplitOn(s, sep) ==
    IF \A i \in 1..Len(s) : s[i] # sep THEN <<s>>
    ELSE LET i == CHOOSE j \in 1..Len(s) :
                      s[j] = sep /\ \A h \in 1..(j - 1) : s[h] # sep
         IN  <<SubSeq(s, 1, i - 1)>> \o SplitOn(SubSeq(s, i + 1, Len(s)), sep)

\* %d: 3[0-1] | [1-2]\d | 0[1-9] | [1-9] | " "[1-9]
MatchDay(f) ==
    \/ Len(f) = 1 /\ f[1] \in Digits \ {"0"}
    \/ /\ Len(f) = 2
       /\ \/ f[1] = "3" /\ f[2] \in {"0", "1"}
          \/ f[1] \in {"1", "2"} /\ f[2] \in Digits
          \/ f[1] \in {"0", " "} /\ f[2] \in Digits \ {"0"}

\* %m: 1[0-2] | 0[1-9] | [1-9]
MatchMonth(f) ==
    \/ Len(f) = 1 /\ f[1] \in Digits \ {"0"}
    \/ /\ Len(f) = 2
       /\ \/ f[1] = "1" /\ f[2] \in {"0", "1", "2"}
          \/ f[1] = "0" /\ f[2] \in Digits \ {"0"}

\* %Y: \d\d\d\d
MatchYear(f) == Len(f) = 4 /\ AllDigits(f)

IsLeap(yr) == (yr % 4 = 0 /\ yr % 100 # 0) \/ yr % 400 = 0

DaysInMonth(yr, mo) ==
    IF mo = 2 THEN (IF IsLeap(yr) THEN 29 ELSE 28)
    ELSE IF mo \in {4, 6, 9, 11} THEN 30 ELSE 31

DATE_FORMATS ==
    << [dayFirst |-> TRUE,  sep |-> "-"], [dayFirst |-> FALSE, sep |-> "-"],
       [dayFirst |-> TRUE,  sep |-> "/"], [dayFirst |-> FALSE, sep |-> "/"] >>

\* whether datetime.strptime(s, fmt) returns (rather than raising ValueError)
StrptimeOk(s, fmt) ==
    LET f == SplitOn(s, fmt.sep)
    IN  /\ Len(f) = 3
        /\ LET fd == IF fmt.dayFirst THEN f[1] ELSE f[3]
               fy == IF fmt.dayFirst THEN f[3] ELSE f[1]
           IN  /\ MatchDay(fd) /\ MatchMonth(f[2]) /\ MatchYear(fy)
               /\ IntOf(fy) >= 1
               /\ IntOf(lstrip(fd)) <= DaysInMonth(IntOf(fy), IntOf(f[2]))

Strptime(s, fmt) ==
    LET f == SplitOn(s, fmt.sep)
        fd == IF fmt.dayFirst THEN f[1] ELSE f[3]
        fy == IF fmt.dayFirst THEN f[3] ELSE f[1]
    IN  [year |-> IntOf(fy), month |-> IntOf(f[2]), day |-> IntOf(lstrip(fd))]

\* the formats, in the order tried, that accept s
MatchingFormats(s) ==
    {i \in 1..Len(DATE_FORMATS) : StrptimeOk(s, DATE_FORMATS[i])}

NoDate == [year |-> 0, month |-> 0, day |-> 0]

-----------------------------------------------------------------------------
(* Invoice data.                                                           *)

\* a dict value that may be missing: it.get(name, 0.0)
Num(v) == [present |-> TRUE, v |-> v]
Absent == [present |-> FALSE, v |-> 0]
Get(f) == IF f.present THEN f.v ELSE 0

DictDesc == [kind |-> "dict", text |-> <<>>]
StrDesc(t) == [kind |-> "str", text |-> t]

Item(k, desc, qty, price) ==
    [key |-> k, description |-> desc, quantity |-> qty, price |-> price]

StrDate(s) == [native |-> FALSE, s |-> s, value |-> NoDate]
NativeDate(d) == [native |-> TRUE, s |-> <<>>, value |-> d]

\* generate_invoice.estimate_item_height (lines 241-250)
estimate_item_height(it) ==
    ITEM_LEADING
      + (IF it.description.kind = "dict" THEN 4 * DETAIL_LEADING ELSE 0)

\* line 257
need_h(it) == estimate_item_height(it) + ROW_GAP

NeedBreakSignSlip(page, cursor, need) ==
    page # <<>> /\ cursor + need < PAGE_BOTTOM_Y_CUTOFF

\* the page-break test of line 259
NeedBreak(page, cursor, need) ==
    page # <<>> /\ cursor - need < PAGE_BOTTOM_Y_CUTOFF

AddAmountOverwrite(sub, it) == Get(it.quantity) * Get(it.price)

\* lines 298-301: amount = qty * price; subtotal += amount
AddAmount(sub, it) == sub + Get(it.quantity) * Get(it.price)

\* lines 338-339, with vat given in percent: vat_amount and total_amount in
\* hundredths of the currency unit
VatAmountX100(sub, vatPct) == sub * vatPct
TotalAmountX100(sub, vatPct) == 100 * sub + VatAmountX100(sub, vatPct)

-----------------------------------------------------------------------------
(* The canvas and PDF pages: a page is the set of things drawn on it.      *)

NoItem == <<>>

Op(op, page, item, yy, v) ==
    [op |-> op, page |-> page, item |-> item, y |-> yy, v |-> v]

\* _draw_lines (lines 121-131): non-blank lines, each one leading lower
RECURSIVE _draw_lines(_, _, _, _, _, _)
_draw_lines(op, page, item, y_start, lines, leading) ==
    IF lines = <<>> THEN {}
    ELSE IF strip(Head(lines)) # <<>>
         THEN {Op(op, page, item, y_start, 0)}
                \cup _draw_lines(op, page, item, y_start - leading,
                                 Tail(lines), leading)
         ELSE _draw_lines(op, page, item, y_start, Tail(lines), leading)

\* the four detail lines of a structured description (lines 313-318)
META == << <<"S", "i", "z", "e", ":", " ">>,
           <<"B", "o", "u", "n", "d", "i", "n", "g", " ", "L">>,
           <<"S", "u", "r", "f", "a", "c", "e", ":", " ">>,
           <<"W", "e", "i", "g", "h", "t", ":", " ", "k", "g">> >>

\* what lines 303-330 draw for item it at row height yy of page p
ItemOps(p, it, yy) ==
    LET k == it.key
        amount == Get(it.quantity) * Get(it.price)
        rowOps == {Op("key", p, k, yy, 0), Op("qty", p, k, yy, Get(it.quantity)),
                   Op("price", p, k, yy, Get(it.price)),
                   Op("amount", p, k, yy, amount)}
        descOps ==
            IF it.description.kind = "dict"
            THEN {Op("title", p, k, yy, 0)}
                   \cup _draw_lines("detail", p, k, yy - (FS_MAIN + 2 * UnitsPerPoint),
                                    META, DETAIL_LEADING)
            ELSE LET ls == _wrap_text(Str(it.description.text), WRAP_CHARS)
                 IN  {Op("desc", p, k, yy - (i - 1) * DETAIL_LEADING, 0) :
                        i \in 1..Len(ls)}
    IN  rowOps \cup descOps

\* what lines 338-354 draw on the last page, below row height yy
TotalsOps(p, yy, sub, vatPct) ==
    LET y_vat == yy - SEP_LAST_VAT
        y_total == y_vat - SEP_VAT_TOTAL
        y_bank == y_total - SEP_TOTAL_BANK
    IN  {Op("vat", p, NoItem, y_vat, VatAmountX100(sub, vatPct)),
         Op("total", p, NoItem, y_total, TotalAmountX100(sub, vatPct))}
          \cup _draw_lines("bank", p, NoItem, y_bank, BANK_LINES,
                           FS_MAIN + 2 * UnitsPerPoint)

TemplatePage(i) == {Op("template", i, NoItem, 0, 0)}

merge_in_place(blank_pages, b, overlay_page) ==
    [blank |-> [blank_pages EXCEPT ![b] = @ \cup overlay_page],
     page |-> blank_pages[b] \cup overlay_page]

\* lines 368-371: deep-copy template page b, merge the overlay page into
\* the copy; the template pages stay as they were
merge_into_copy(blank_pages, b, overlay_page) ==
    [blank |-> blank_pages, page |-> blank_pages[b] \cup overlay_page]

Min(a, b) == IF a <= b THEN a ELSE b

-----------------------------------------------------------------------------
(* The filesystem: the directories that exist and the files in them.       *)

OVERLAY_NAME == "_overlay_tmp.pdf"

\* os.path.dirname(output_path) or "."
Dir(path) == IF path.dir = "" THEN "." ELSE path.dir

makedirs(f, d) == [f EXCEPT !.dirs = @ \cup {d}]

At(f, d, b) == {x \in f.files : x.dir = d /\ x.base = b}
Exists(f, d, b) == At(f, d, b) # {}

WriteFile(f, d, b, doc) ==
    [f EXCEPT !.files = (@ \ At(f, d, b)) \cup {[dir |-> d, base |-> b, doc |-> doc]}]

\* os.remove, FileNotFoundError swallowed (lines 379-382)
RemoveFile(f, d, b) == [f EXCEPT !.files = @ \ At(f, d, b)]

Doc(kind, pgs) == [kind |-> kind, pages |-> pgs]

-----------------------------------------------------------------------------
(* The inputs explored.                                                    *)

MaxItems == 5
MaxKeys == 3
MaxMoneyItems == 3
MaxMergeItems == 5
MaxTemplatePages == 2
LongWords == 9
LongWordLen == 36
MaxTextLen == 4
MaxWrapChars == 3

Rep(c, n) == [i \in 1..n |-> c]

ShortText == <<"p", "a", "c", "k", "a", "g", "i", "n", "g">>
\* LongWords words of LongWordLen letters: no two fit on a line of WRAP_CHARS
LongText == join([i \in 1..LongWords |-> Rep("a", LongWordLen)])

DigitSeq == <<"1", "2", "3", "4", "5", "6", "7", "8", "9">>
KeyOfIndex(i) == <<DigitSeq[i]>>

SeqsUpTo(S, n) == UNION {[1..m -> S] : m \in 0..n}
Injective(f) == \A i, j \in DOMAIN f : i # j => f[i] # f[j]

DefaultDate == StrDate(<<"1", "6", "-", "0", "7", "-", "2", "0", "2", "5">>)
DefaultPath == [dir |-> "out", base |-> "invoice.pdf"]
EmptyFs == [dirs |-> {"."}, files |-> {}]
TemplateOf(n) == [i \in 1..n |-> TemplatePage(i - 1)]

Input(items, date, vatPct, path, tpl, f) ==
    [data |-> [date |-> date, items |-> items, vat |-> vatPct],
     output_path |-> path, template |-> tpl, fs |-> f]

\* layout: up to MaxItems items keyed "1", "2", ..., of every description kind
LayoutInputs ==
    {Input([i \in DOMAIN ds |-> Item(KeyOfIndex(i), ds[i], Num(1), Num(1))],
           DefaultDate, 20, DefaultPath, TemplateOf(1), EmptyFs) :
       ds \in SeqsUpTo({DictDesc, StrDesc(ShortText), StrDesc(LongText)},
                       MaxItems)}

KeyChoices ==
    {<<"1">>, <<"2">>, <<"1", "0">>, <<"-", "1">>, <<"x">>,
     <<"2", "0", "0", "0", "0", "0", "0", "0", "0", "0">>}

\* item keys: every insertion order of up to MaxKeys distinct keys
KeyInputs ==
    {Input([i \in DOMAIN ks |-> Item(ks[i], StrDesc(ShortText), Num(1), Num(1))],
           DefaultDate, 20, DefaultPath, TemplateOf(1), EmptyFs) :
       ks \in {f \in SeqsUpTo(KeyChoices, MaxKeys) : Injective(f)}}

\* amounts: structured items (two to a page), quantity and price present or not
MoneyInputs ==
    {Input([i \in DOMAIN qp |-> Item(KeyOfIndex(i), DictDesc, qp[i][1], qp[i][2])],
           DefaultDate, v, DefaultPath, TemplateOf(1), EmptyFs) :
       qp \in SeqsUpTo({Absent, Num(2)} \X {Absent, Num(3), Num(5)}, MaxMoneyItems),
       v \in {0, 20, 35}}

\* template length against overlay length
MergeInputs ==
    {Input([i \in 1..n |-> Item(KeyOfIndex(i), DictDesc, Num(1), Num(1))],
           DefaultDate, 20, DefaultPath, TemplateOf(t), EmptyFs) :
       n \in 0..MaxMergeItems, t \in 1..MaxTemplatePages}

DateChoices ==
    {NativeDate([year |-> 2025, month |-> 7, day |-> 16]),
     StrDate(<<"1", "6", "-", "0", "7", "-", "2", "0", "2", "5">>),
     StrDate(<<"2", "0", "2", "5", "-", "0", "7", "-", "1", "6">>),
     StrDate(<<"1", "6", "/", "0", "7", "/", "2", "0", "2", "5">>),
     StrDate(<<"2", "0", "2", "5", "/", "7", "/", "1", "6">>),
     StrDate(<<"0", "7", ".", "1", "6", ".", "2", "0", "2", "5">>),
     StrDate(<<"2", "0", "2", "5", "-", "1", "6", "-", "0", "7">>),
     StrDate(<<"3", "1", "-", "0", "2", "-", "2", "0", "2", "5">>),
     StrDate(<<"1", "6", "-", "0", "7", "/", "2", "0", "2", "5">>),
     StrDate(<<"J", "u", "l", "y">>),
     StrDate(<<>>)}

PathChoices == [dir : {"", "out"}, base : {"invoice.pdf", OVERLAY_NAME}]

StaleDoc == Doc("stale", <<>>)

\* the filesystems generate_invoice may be called in: the output directory
\* present or not and, when present, an old overlay or an old output in it
FsChoices(path) ==
    LET d == Dir(path)
    IN  {[dirs |-> {"."} \cup ds, files |-> fl] :
           ds \in SUBSET {d},
           fl \in SUBSET {[dir |-> d, base |-> OVERLAY_NAME, doc |-> StaleDoc],
                          [dir |-> d, base |-> path.base, doc |-> StaleDoc]}}

FsOk(f) == \A x \in f.files : x.dir \in f.dirs

\* dates, output paths and filesystems
FileInputs ==
    {inp \in UNION {{Input(<<Item(KeyOfIndex(1), DictDesc, Num(1), Num(1))>>,
                           d, 20, path, TemplateOf(1), f) :
                       d \in DateChoices, f \in FsChoices(path)} :
                    path \in PathChoices} :
       FsOk(inp.fs)}

Inputs == LayoutInputs \cup KeyInputs \cup MoneyInputs \cup MergeInputs
            \cup FileInputs

WrapAlphabet == {"a", "b", " "}
WrapTexts == {NoneText} \cup {Str(t) : t \in SeqsUpTo(WrapAlphabet, MaxTextLen)}

-----------------------------------------------------------------------------
(* generate_invoice, section by section.                                   *)

SECTIONS_overlay_first ==
    <<"load_blank", "setup_overlay", "parse_date", "prepare_items",
      "paginate", "draw_pages", "save", "open_overlay", "merge",
      "write_output", "remove_overlay", "done">>

\* the order of the sections of generate_invoice (lines 205-382)
SECTIONS ==
    <<"load_blank", "parse_date", "prepare_items", "setup_overlay",
      "paginate", "draw_pages", "save", "open_overlay", "merge",
      "write_output", "remove_overlay", "done">>

After(l) == SECTIONS[(CHOOSE i \in 1..Len(SECTIONS) : SECTIONS[i] = l) + 1]

NewCanvas == [cur |-> {}, shown |-> <<>>]

InvoiceLocalsInit ==
    /\ reader_blank = <<>>
    /\ dt = NoDate
    /\ items_sorted = <<>>
    /\ pages = <<>> /\ cur_page = <<>> /\ cur_y = Y_FIRST_ITEM /\ plan_i = 1
    /\ subtotal = 0 /\ page_idx = 0 /\ row = 0 /\ y = Y_FIRST_ITEM
    /\ canvas = NewCanvas
    /\ added = <<>>
    /\ reader_overlay = <<>>
    /\ writer = <<>> /\ merge_i = 0

WrapIdle == w_text = NoneText /\ w_max = 0 /\ w_pc = "idle" /\ w_result = <<>>

Init ==
    /\ \E inp \in Inputs :
         /\ data = inp.data
         /\ output_path = inp.output_path
         /\ template = inp.template
         /\ fs = inp.fs
         /\ fs0 = inp.fs
    /\ pc = SECTIONS[1]
    /\ InvoiceLocalsInit
    /\ WrapIdle

\* lines 206-209
LoadBlank ==
    /\ pc = "load_blank"
    /\ reader_blank' = template
    /\ pc' = After(pc)
    /\ UNCHANGED <<data, output_path, template, fs, fs0, dt, items_sorted,
                   pages, cur_page, cur_y, plan_i, subtotal, page_idx, row, y,
                   canvas, added, reader_overlay, writer, merge_i, wrap_vars>>

\* lines 212-224
ParseDate ==
    /\ pc = "parse_date"
    /\ IF data.date.native
       THEN dt' = data.date.value /\ pc' = After(pc)
       ELSE LET ok == MatchingFormats(data.date.s)
            IN  IF ok = {}
                THEN pc' = "error" /\ dt' = dt
                ELSE /\ dt' = Strptime(data.date.s,
                                       DATE_FORMATS[CHOOSE i \in ok :
                                                      \A j \in ok : i <= j])
                     /\ pc' = After(pc)
    /\ UNCHANGED <<data, output_path, template, fs, fs0, reader_blank,
                   items_sorted, pages, cur_page, cur_y, plan_i, subtotal,
                   page_idx, row, y, canvas, added, reader_overlay, writer,
                   merge_i, wrap_vars>>

\* line 233
PrepareItems ==
    /\ pc = "prepare_items"
    /\ items_sorted' = SortItems(data.items)
    /\ pc' = After(pc)
    /\ UNCHANGED <<data, output_path, template, fs, fs0, reader_blank, dt,
                   pages, cur_page, cur_y, plan_i, subtotal, page_idx, row, y,
                   canvas, added, reader_overlay, writer, merge_i, wrap_vars>>

\* lines 236-238: the canvas writes nothing before save()
SetupOverlay ==
    /\ pc = "setup_overlay"
    /\ fs' = makedirs(fs, Dir(output_path))
    /\ canvas' = NewCanvas
    /\ pc' = After(pc)
    /\ UNCHANGED <<data, output_path, template, fs0, reader_blank, dt,
                   items_sorted, pages, cur_page, cur_y, plan_i, subtotal,
                   page_idx, row, y, added, reader_overlay, writer, merge_i,
                   wrap_vars>>

\* one iteration of the loop of lines 256-264
PaginateItem ==
    /\ pc = "paginate"
    /\ plan_i <= Len(items_sorted)
    /\ LET it == items_sorted[plan_i]
           need == need_h(it)
       IN  IF NeedBreak(cur_page, cur_y, need)
           THEN /\ pages' = Append(pages, cur_page)
                /\ cur_page' = <<it>>
                /\ cur_y' = Y_FIRST_ITEM - need
           ELSE /\ pages' = pages
                /\ cur_page' = Append(cur_page, it)
                /\ cur_y' = cur_y - need
    /\ plan_i' = plan_i + 1
    /\ UNCHANGED <<data, output_path, template, fs, fs0, pc, reader_blank, dt,
                   items_sorted, subtotal, page_idx, row, y, canvas, added,
                   reader_overlay, writer, merge_i, wrap_vars>>

\* lines 265-269
PaginateEnd ==
    /\ pc = "paginate"
    /\ plan_i > Len(items_sorted)
    /\ pages' = IF cur_page # <<>> THEN Append(pages, cur_page) ELSE pages
    /\ subtotal' = 0
    /\ page_idx' = 0 /\ row' = 0
    /\ pc' = After(pc)
    /\ UNCHANGED <<data, output_path, template, fs, fs0, reader_blank, dt,
                   items_sorted, cur_page, cur_y, plan_i, y, canvas, added,
                   reader_overlay, writer, merge_i, wrap_vars>>

\* lines 290-295: the header of page page_idx
DrawHeader ==
    /\ pc = "draw_pages"
    /\ page_idx < Len(pages)
    /\ row = 0
    /\ canvas' = [canvas EXCEPT !.cur = @ \cup {Op("header", page_idx, NoItem, 0, 0)}]
    /\ y' = Y_FIRST_ITEM
    /\ row' = 1
    /\ UNCHANGED <<data, output_path, template, fs, fs0, pc, reader_blank, dt,
                   items_sorted, pages, cur_page, cur_y, plan_i, subtotal,
                   page_idx, added, reader_overlay, writer, merge_i, wrap_vars>>

\* one iteration of the loop of lines 296-333
DrawItem ==
    /\ pc = "draw_pages"
    /\ page_idx < Len(pages)
    /\ row >= 1 /\ row <= Len(pages[page_idx + 1])
    /\ LET it == pages[page_idx + 1][row]
       IN  /\ subtotal' = AddAmount(subtotal, it)
           /\ added' = Append(added, it.key)
           /\ canvas' = [canvas EXCEPT !.cur = @ \cup ItemOps(page_idx, it, y)]
    /\ y' = y - SEP_ITEM
    /\ row' = row + 1
    /\ UNCHANGED <<data, output_path, template, fs, fs0, pc, reader_blank, dt,
                   items_sorted, pages, cur_page, cur_y, plan_i, page_idx,
                   reader_overlay, writer, merge_i, wrap_vars>>

\* lines 336-356: the totals on the last page, then showPage
FinishPage ==
    /\ pc = "draw_pages"
    /\ page_idx < Len(pages)
    /\ row = Len(pages[page_idx + 1]) + 1
    /\ LET is_last == (page_idx = Len(pages) - 1)
           drawn == IF is_last
                    THEN canvas.cur \cup TotalsOps(page_idx, y, subtotal, data.vat)
                    ELSE canvas.cur
       IN  canvas' = [cur |-> {}, shown |-> Append(canvas.shown, drawn)]
    /\ page_idx' = page_idx + 1
    /\ row' = 0
    /\ UNCHANGED <<data, output_path, template, fs, fs0, pc, reader_blank, dt,
                   items_sorted, pages, cur_page, cur_y, plan_i, subtotal, y,
                   added, reader_overlay, writer, merge_i, wrap_vars>>

DrawEnd ==
    /\ pc = "draw_pages"
    /\ page_idx = Len(pages)
    /\ pc' = After(pc)
    /\ UNCHANGED <<data, output_path, template, fs, fs0, reader_blank, dt,
                   items_sorted, pages, cur_page, cur_y, plan_i, subtotal,
                   page_idx, row, y, canvas, added, reader_overlay, writer,
                   merge_i, wrap_vars>>

\* line 358: c.save() writes the overlay file.  What reportlab writes for a
\* canvas on which showPage was never called is the library's business: no
\* page, or one empty page.
Save ==
    /\ pc = "save"
    /\ \E pgs \in (IF canvas.shown = <<>> THEN {<<>>, <<{}>>} ELSE {canvas.shown}) :
         fs' = WriteFile(fs, Dir(output_path), OVERLAY_NAME, Doc("overlay", pgs))
    /\ pc' = After(pc)
    /\ UNCHANGED <<data, output_path, template, fs0, reader_blank, dt,
                   items_sorted, pages, cur_page, cur_y, plan_i, subtotal,
                   page_idx, row, y, canvas, added, reader_overlay, writer,
                   merge_i, wrap_vars>>

\* lines 361-365
OpenOverlay ==
    /\ pc = "open_overlay"
    /\ \E x \in At(fs, Dir(output_path), OVERLAY_NAME) :
         reader_overlay' = x.doc.pages
    /\ writer' = <<>>
    /\ merge_i' = 0
    /\ pc' = After(pc)
    /\ UNCHANGED <<data, output_path, template, fs, fs0, reader_blank, dt,
                   items_sorted, pages, cur_page, cur_y, plan_i, subtotal,
                   page_idx, row, y, canvas, added, wrap_vars>>

\* one iteration of the loop of lines 367-372
MergeStep ==
    /\ pc = "merge"
    /\ merge_i < Len(reader_overlay)
    /\ LET b == Min(merge_i, Len(reader_blank) - 1) + 1
           m == merge_into_copy(reader_blank, b, reader_overlay[merge_i + 1])
       IN  /\ reader_blank' = m.blank
           /\ writer' = Append(writer, m.page)
    /\ merge_i' = merge_i + 1
    /\ UNCHANGED <<data, output_path, template, fs, fs0, pc, dt, items_sorted,
                   pages, cur_page, cur_y, plan_i, subtotal, page_idx, row, y,
                   canvas, added, reader_overlay, wrap_vars>>

MergeEnd ==
    /\ pc = "merge"
    /\ merge_i = Len(reader_overlay)
    /\ pc' = After(pc)
    /\ UNCHANGED <<data, output_path, template, fs, fs0, reader_blank, dt,
                   items_sorted, pages, cur_page, cur_y, plan_i, subtotal,
                   page_idx, row, y, canvas, added, reader_overlay, writer,
                   merge_i, wrap_vars>>

\* lines 375-377
WriteOutput ==
    /\ pc = "write_output"
    /\ fs' = WriteFile(makedirs(fs, Dir(output_path)), Dir(output_path),
                       output_path.base, Doc("merged", writer))
    /\ pc' = After(pc)
    /\ UNCHANGED <<data, output_path, template, fs0, reader_blank, dt,
                   items_sorted, pages, cur_page, cur_y, plan_i, subtotal,
                   page_idx, row, y, canvas, added, reader_overlay, writer,
                   merge_i, wrap_vars>>

\* lines 379-382
RemoveOverlay ==
    /\ pc = "remove_overlay"
    /\ fs' = RemoveFile(fs, Dir(output_path), OVERLAY_NAME)
    /\ pc' = After(pc)
    /\ UNCHANGED <<data, output_path, template, fs0, reader_blank, dt,
                   items_sorted, pages, cur_page, cur_y, plan_i, subtotal,
                   page_idx, row, y, canvas, added, reader_overlay, writer,
                   merge_i, wrap_vars>>

Next ==
    \/ LoadBlank \/ ParseDate \/ PrepareItems \/ SetupOverlay
    \/ PaginateItem \/ PaginateEnd
    \/ DrawHeader \/ DrawItem \/ FinishPage \/ DrawEnd
    \/ Save \/ OpenOverlay \/ MergeStep \/ MergeEnd
    \/ WriteOutput \/ RemoveOverlay

Spec == Init /\ [][Next]_vars

-----------------------------------------------------------------------------
(* _wrap_text called on its own.                                           *)

InvoiceIdle ==
    /\ data = [date |-> DefaultDate, items |-> <<>>, vat |-> 0]
    /\ output_path = DefaultPath
    /\ template = TemplateOf(1)
    /\ fs = EmptyFs /\ fs0 = EmptyFs
    /\ pc = "idle"
    /\ InvoiceLocalsInit

WrapInit ==
    /\ w_text \in WrapTexts
    /\ w_max \in (-1)..MaxWrapChars
    /\ w_pc = "call"
    /\ w_result = <<>>
    /\ InvoiceIdle

WrapCall ==
    /\ w_pc = "call"
    /\ w_result' = _wrap_text(w_text, w_max)
    /\ w_pc' = "done"
    /\ UNCHANGED <<w_text, w_max, invoice_vars>>

WrapNext == WrapCall

SpecWrap == WrapInit /\ [][WrapNext]_vars

-----------------------------------------------------------------------------
(* Properties.                                                             *)

Range(f) == {f[i] : i \in DOMAIN f}

RECURSIVE Flatten(_)
Flatten(ss) == IF ss = <<>> THEN <<>> ELSE Head(ss) \o Flatten(Tail(ss))

RECURSIVE SumAmounts(_)
SumAmounts(items) ==
    IF items = <<>> THEN 0
    ELSE Get(Head(items).quantity) * Get(Head(items).price)
           + SumAmounts(Tail(items))

Planned == pc \notin {"load_blank", "parse_date", "prepare_items",
                      "setup_overlay", "paginate", "error"}
Drawn == pc \in {"save", "open_overlay", "merge", "write_output",
                 "remove_overlay", "done"}
Merged == pc \in {"write_output", "remove_overlay", "done"}

\* everything drawn so far, on flushed pages and on the open page
AllOps == canvas.cur \cup UNION Range(canvas.shown)

\* an item's footprint: a row, four detail lines if the description is
\* structured, and the row gap
Footprint(it) ==
    SEP_ITEM + (IF it.description.kind = "dict" THEN 4 * DETAIL_LEADING ELSE 0)
      + ROW_GAP

\* the planner cursor after the first j items of a page: FIRST_ITEM_Y minus
\* the footprints placed so far
RECURSIVE CursorAfter(_, _)
CursorAfter(page, j) ==
    IF j = 0 THEN Y_FIRST_ITEM
    ELSE CursorAfter(page, j - 1) - Footprint(page[j])

\* a numeric key never follows a greater numeric key or a non-numeric key
KeyBefore(a, b) ==
    IF IsNumeric(a) /\ IsNumeric(b) THEN int(a) <= int(b)
    ELSE IsNumeric(a) \/ ~IsNumeric(b)

\* C1: once the pages are planned, their concatenation holds exactly the
\* input items, each key once, in ascending numeric order of key with the
\* non-numeric keys after all numeric keys.
C1_PagesAreSortedInput ==
    Planned =>
      LET flat == Flatten(pages)
      IN  /\ Len(flat) = Len(data.items)
          /\ \A it \in Range(data.items) :
               Cardinality({i \in 1..Len(flat) : flat[i].key = it.key}) = 1
          /\ Range(flat) = Range(data.items)
          /\ \A i, j \in 1..Len(flat) :
               i < j => KeyBefore(flat[i].key, flat[j].key)

\* C2: on every planned page of two or more items, no item but the last
\* moves the planner cursor below PAGE_BOTTOM_Y_CUTOFF.
C2_OnlyLastItemMayCross ==
    /\ cur_y = CursorAfter(cur_page, Len(cur_page))
    /\ \A page \in Range(pages) \cup {cur_page} :
      Len(page) >= 2 =>
        \A j \in 1..(Len(page) - 1) :
          CursorAfter(page, j) >= PAGE_BOTTOM_Y_CUTOFF

\* a page of two or more items was closed because the next item would have
\* moved the cursor below the cutoff
C2_Witness ==
    /\ Planned
    /\ \E p \in 1..(Len(pages) - 1) :
         /\ Len(pages[p]) >= 2
         /\ CursorAfter(pages[p], Len(pages[p])) - Footprint(pages[p + 1][1])
              < PAGE_BOTTOM_Y_CUTOFF

\* C3: no line drawn for an item (its row, the detail lines of a structured
\* description, the wrapped lines of a plain one) is below
\* PAGE_BOTTOM_Y_CUTOFF.
C3_NoItemLineBelowCutoff ==
    \A o \in AllOps : o.item # NoItem => o.y >= PAGE_BOTTOM_Y_CUTOFF

\* C4: the subtotal is the sum of quantity * price over all items of all
\* pages, each item added once, a missing quantity or price counting as 0;
\* the VAT drawn is subtotal * vat and the total drawn is subtotal + VAT
\* (amounts in hundredths, vat in percent).
C4_TotalsArithmetic ==
    LET S == SumAmounts(data.items)
    IN  /\ \A o \in AllOps :
             /\ o.op = "vat" => o.v = S * data.vat
             /\ o.op = "total" => o.v = 100 * S + S * data.vat
        /\ Drawn =>
             /\ subtotal = S
             /\ Len(added) = Len(data.items)
             /\ \A it \in Range(data.items) :
                  Cardinality({i \in 1..Len(added) : added[i] = it.key}) = 1

\* totals drawn after two or more pages, with an item that lacks a quantity
C4_Witness ==
    /\ pc = "done"
    /\ Len(pages) >= 2
    /\ \E o \in AllOps : o.op = "total" /\ o.v > 0
    /\ data.vat > 0
    /\ \E it \in Range(data.items) : ~it.quantity.present

\* C5: the merged output has as many pages as the overlay; output page i is
\* template page min(i, N-1) plus overlay page i and nothing else; the
\* template pages are as they were loaded.
C5_MergedPages ==
    /\ pc \notin {"load_blank", "idle"} => reader_blank = template
    /\ Merged =>
         /\ Len(writer) = Len(reader_overlay)
         /\ \A i \in 0..(Len(reader_overlay) - 1) :
              writer[i + 1] = template[Min(i, Len(template) - 1) + 1]
                                \cup reader_overlay[i + 1]
    /\ pc = "remove_overlay" =>
         At(fs, Dir(output_path), output_path.base)
           = {[dir |-> Dir(output_path), base |-> output_path.base,
               doc |-> Doc("merged", writer)]}

\* the last template page was used for two overlay pages
C5_Witness ==
    /\ pc = "done"
    /\ Len(writer) >= Len(template) + 2

\* C6: _wrap_text gives the empty sequence for empty or blank text, and the
\* one-element sequence of the trimmed text for non-blank text with
\* max_chars <= 0.
C6_WrapEdgeCases ==
    (w_pc = "done" /\ ~w_text.none) =>
      LET s == strip(w_text.s)
      IN  /\ s = <<>> => w_result = <<>>
          /\ (s # <<>> /\ w_max <= 0) => w_result = <<s>>

\* whether the date string is accepted by none of the four formats
BadDate ==
    /\ ~data.date.native
    /\ \A i \in 1..Len(DATE_FORMATS) : ~StrptimeOk(data.date.s, DATE_FORMATS[i])

\* C7: a date string that matches none of the four formats makes
\* generate_invoice fail before any pagination or drawing, with the
\* filesystem as it was: no directory and no file created.
C7_BadDateFailsFirst ==
    /\ pc = "error" =>
         /\ BadDate
         /\ fs = fs0
         /\ pages = <<>> /\ cur_page = <<>> /\ plan_i = 1
         /\ canvas = NewCanvas
         /\ writer = <<>>
    /\ BadDate =>
         /\ pc \in {"load_blank", "parse_date", "error"}
         /\ fs = fs0

\* the failure, called with an output directory that does not exist
C7_Witness ==
    /\ pc = "error"
    /\ Dir(output_path) \notin fs0.dirs

\* C8: for non-blank text and max_chars >= 1 the words of the output lines,
\* in order, are the words of the input; no line is empty; a line of two or
\* more words is no longer than max_chars; a word longer than max_chars has
\* a line to itself.
C8_GreedyWrap ==
    (w_pc = "done" /\ ~w_text.none /\ w_max >= 1) =>
      LET s == strip(w_text.s)
      IN  s # <<>> =>
            /\ Flatten([i \in DOMAIN w_result |-> split(w_result[i])])
                 = split(w_text.s)
            /\ \A i \in DOMAIN w_result :
                 /\ w_result[i] # <<>>
                 /\ Len(split(w_result[i])) >= 2 => Len(w_result[i]) <= w_max
                 /\ \A w \in Range(split(w_result[i])) :
                      Len(w) > w_max => w_result[i] = w

HasTotals(page) == \E o \in page : o.op \in {"vat", "total", "bank"}

\* C9: a completed run has drawn the totals block once, on the last page
\* flushed and on no other, after the amount of every item was added to
\* the subtotal; every planned page was flushed once, in page order.
C9_TotalsOnceOnLastPage ==
    /\ (\E o \in AllOps : o.op \in {"vat", "total", "bank"}) =>
         Len(added) = Len(data.items)
    /\ pc = "done" =>
         /\ Len(canvas.shown) = Len(pages)
         /\ \A i \in 1..Len(canvas.shown) :
              \A o \in canvas.shown[i] : o.page = i - 1
         /\ Cardinality({i \in 1..Len(canvas.shown) :
                           HasTotals(canvas.shown[i])}) = 1
         /\ canvas.shown # <<>> /\ HasTotals(canvas.shown[Len(canvas.shown)])
         /\ Cardinality({o \in AllOps : o.op = "total"}) = 1

\* C10: after a completed run the merged document is at the output path and
\* the temporary overlay file is gone.
C10_OutputKeptOverlayRemoved ==
    pc = "done" =>
      /\ \E x \in At(fs, Dir(output_path), output_path.base) :
           x.doc = Doc("merged", writer)
      /\ ~Exists(fs, Dir(output_path), OVERLAY_NAME)

=============================================================================
